---------------------------- MODULE Spec2Model ----------------------------
(***************************************************************************)
(* A model of backend/main.py: run_basic_checks (the statement scoring     *)
(* pipeline), layout_anomaly_check, running_balance_check_rows and         *)
(* ai_generation_signals.                                                  *)
(*                                                                         *)
(* The score is a Python float.  Its arithmetic is modelled exactly as     *)
(* IEEE-754 binary64 with round-to-nearest-even: 0.15, 0.03, ... are not   *)
(* representable, and the accumulated score can land one or more ulps      *)
(* below the decimal value (1.0 - 0.05 - 0.06 - 0.05 - 0.02 is             *)
(* 0.8199999999999998, which is < 0.82).                                   *)
(***************************************************************************)
EXTENDS Integers, Sequences, FiniteSets

(***************************************************************************)
(* BINARY64 ARITHMETIC                                                     *)
(*                                                                         *)
(* Every score the program computes is a multiple of 2^-58 (the ulp of the *)
(* smallest delta, 0.02) of magnitude below 2.  A float is the record      *)
(* [neg, hi, lo] of magnitude (hi * 2^29 + lo) * 2^-58; two limbs because  *)
(* the magnitude needs 59 bits.  Zero is always [neg |-> FALSE, 0, 0].     *)
(***************************************************************************)
Pow2(n) == 2 ^ n

Limb == Pow2(29)

\* hi of the first magnitude that no longer fits a 53-bit significand exactly
\* at unit spacing: 2^53 units = 2^24 * 2^29.
ExactHi == Pow2(24)

RECURSIVE Ulp(_)
\* Spacing, in units of 2^-58, of the doubles in the binade of a magnitude
\* whose high limb is hi.
Ulp(hi) == IF hi < ExactHi THEN 1 ELSE 2 * Ulp(hi \div 2)

Mk(neg, hi, lo) == [neg |-> neg /\ (hi # 0 \/ lo # 0), hi |-> hi, lo |-> lo]

\* Round the exact magnitude hi*2^29 + lo + num/den (0 <= num < den) to the
\* nearest double, ties to even.
RoundNearestEven(neg, hi, lo, num, den) ==
    LET u    == Ulp(hi)
        r    == lo % u
        base == lo - r
        twice == 2 * (r * den + num)
        up   == \/ twice > u * den
                \/ twice = u * den /\ (base \div u) % 2 = 1
        lo2  == IF up THEN base + u ELSE base
    IN  IF lo2 = Limb THEN Mk(neg, hi + 1, 0) ELSE Mk(neg, hi, lo2)

\* floor(r * 2^bits / den) and the remainder, r < den <= 1000, bits <= 15.
DivStep(r, bits, den) == << (r * Pow2(bits)) \div den, (r * Pow2(bits)) % den >>

\* The double a decimal literal num/den denotes (float("0.15") is
\* Decimal(15, 100)): long division to 58 fractional bits, then one rounding.
Decimal(num, den) ==
    LET s1 == DivStep(num % den, 15, den)
        s2 == DivStep(s1[2], 14, den)
        s3 == DivStep(s2[2], 15, den)
        s4 == DivStep(s3[2], 14, den)
        hi == (num \div den) * Limb + s1[1] * Pow2(14) + s2[1]
        lo == s3[1] * Pow2(14) + s4[1]
    IN  RoundNearestEven(FALSE, hi, lo, s4[2], den)

MagLt(a, b) == a.hi < b.hi \/ (a.hi = b.hi /\ a.lo < b.lo)

\* a < b on floats
FLt(a, b) ==
    IF a.neg /\ ~b.neg THEN TRUE
    ELSE IF ~a.neg /\ b.neg THEN FALSE
    ELSE IF a.neg THEN MagLt(b, a) ELSE MagLt(a, b)

FNeg(a) == Mk(~a.neg, a.hi, a.lo)

\* a + b, correctly rounded
FAdd(a, b) ==
    IF a.neg = b.neg
    THEN LET lo == a.lo + b.lo
             c  == lo \div Limb
         IN  RoundNearestEven(a.neg, a.hi + b.hi + c, lo % Limb, 0, 1)
    ELSE LET big   == IF MagLt(a, b) THEN b ELSE a
             small == IF MagLt(a, b) THEN a ELSE b
             bor   == IF big.lo < small.lo THEN 1 ELSE 0
         IN  RoundNearestEven(big.neg, big.hi - small.hi - bor,
                              big.lo + bor * Limb - small.lo, 0, 1)

\* a - b, correctly rounded
FSub(a, b) == FAdd(a, FNeg(b))

\* Python's min(a, b) and max(a, b): the first argument unless the second is
\* strictly smaller (larger).
PyMin(a, b) == IF FLt(b, a) THEN b ELSE a
PyMax(a, b) == IF FLt(a, b) THEN b ELSE a

\* Decimal literals of the source, in hundredths.
F(n) == Decimal(n, 100)

(***************************************************************************)
(* MESSAGES                                                                *)
(*                                                                         *)
(* A message is its fixed text, the string its f-string interpolates and   *)
(* the numbers it interpolates.                                            *)
(***************************************************************************)
Msg(text) == [text |-> text, s |-> "", args |-> << >>]
MsgS(text, s) == [text |-> text, s |-> s, args |-> << >>]
MsgN(text, args) == [text |-> text, s |-> "", args |-> args]

Abs(x) == IF x < 0 THEN -x ELSE x

RECURSIVE SumSeq(_)
SumSeq(q) == IF q = << >> THEN 0 ELSE Head(q) + SumSeq(Tail(q))

Reverse(q) == [i \in 1..Len(q) |-> q[Len(q) + 1 - i]]

(***************************************************************************)
(* ai_generation_signals                                                   *)
(*                                                                         *)
(* The metadata text is known by what the code asks of it: whether it is   *)
(* empty, and for each token list whether any(x in lower_meta ...) holds.  *)
(***************************************************************************)
TokenLists == {"high_risk_editors", "medium_risk_tools", "banklike_or_os",
               "strong_ai_tools", "generic_signals"}

EmptyMeta == [empty |-> TRUE, has |-> {}]

ai_generation_signals(meta_text) ==
    IF "strong_ai_tools" \in meta_text.has
    THEN [level |-> "strong",
          reasons |-> << Msg("AI/synthetic indicator: metadata mentions an automated generation tool.") >>]
    ELSE IF meta_text.empty
    THEN [level |-> "possible",
          reasons |-> << Msg("AI/synthetic indicator: metadata missing (common in automated PDFs, but also common in real exports).") >>]
    ELSE IF "generic_signals" \in meta_text.has
    THEN [level |-> "possible",
          reasons |-> << Msg("AI/synthetic indicator: metadata suggests a generic PDF generator (weak evidence).") >>]
    ELSE [level |-> "none", reasons |-> << >>]

(***************************************************************************)
(* layout_anomaly_check                                                    *)
(*                                                                         *)
(* A page text is its number of lines and whether it carries a             *)
(* "page N of M" marker; header is the set of header tokens found on       *)
(* page 1.  count < 0.5 * (sum / len) is decided exactly on integers:      *)
(* when the two sides differ they differ by at least 1 / (2 * len).        *)
(***************************************************************************)
header_tokens == {"account", "sort code", "statement", "period"}

\* Variant: a single header hit no longer warns (< 1 for <= 1).
HeaderWarning_StrictlyLess(header) ==
    IF Cardinality(header \cap header_tokens) < 1
    THEN << Msg("Layout: key header fields look missing/unclear on page 1.") >>
    ELSE << >>

HeaderWarning(header) ==
    IF Cardinality(header \cap header_tokens) <= 1
    THEN << Msg("Layout: key header fields look missing/unclear on page 1.") >>
    ELSE << >>

RECURSIVE ThinPages(_, _, _, _)
ThinPages(line_counts, idx, total, n) ==
    IF idx > Len(line_counts) - 1 THEN << >>
    ELSE (IF total > 0 /\ 2 * line_counts[idx] * n < total
          THEN << MsgN("Layout: page has far fewer text lines than other pages.", << idx >>) >>
          ELSE << >>)
         \o ThinPages(line_counts, idx + 1, total, n)

LineCountWarnings(pages_text) ==
    LET num_pages   == Len(pages_text)
        line_counts == [i \in 1..num_pages |-> pages_text[i].lines]
        internal    == SubSeq(line_counts, 2, num_pages - 1)
    IN  IF num_pages >= 3
        THEN ThinPages(line_counts, 2, SumSeq(internal),
                       IF Len(internal) > 1 THEN Len(internal) ELSE 1)
        ELSE << >>

MarkerWarning(pages_text) ==
    LET num_pages == Len(pages_text)
        pages_with_marker == {i \in 1..num_pages : pages_text[i].marker}
        n == Cardinality(pages_with_marker)
    IN  IF 0 < n /\ n < num_pages
        THEN << [text |-> "Layout: page numbering marker appears on some pages but missing on: ",
                 s |-> "",
                 args |-> SelectSeq([i \in 1..num_pages |-> i],
                                    LAMBDA i : i \notin pages_with_marker)] >>
        ELSE << >>

layout_anomaly_check(pages_text, header) ==
    IF pages_text = << >> THEN << >>
    ELSE HeaderWarning(header) \o LineCountWarnings(pages_text) \o MarkerWarning(pages_text)

(***************************************************************************)
(* running_balance_check_rows                                              *)
(*                                                                         *)
(* Amounts are whole pounds, which binary64 adds and subtracts exactly, so *)
(* abs(expected - balance) > 0.01 is 100 * |expected - balance| > 1.       *)
(***************************************************************************)
Mismatch(prev, curr) ==
    LET expected == prev.balance + curr.credit - curr.debit
    IN  100 * Abs(expected - curr.balance) > 1

RECURSIVE CountFrom(_, _, _, _)
\* The loop of _count_mismatches from index i on, with m mismatches and the
\* warnings local_warn collected so far.
CountFrom(rows, i, m, local_warn) ==
    IF i > Len(rows) THEN [m |-> m, warn |-> local_warn]
    ELSE LET prev == rows[i - 1]
             curr == rows[i]
             expected == prev.balance + curr.credit - curr.debit
         IN  IF Mismatch(prev, curr)
             THEN CountFrom(rows, i + 1, m + 1,
                      IF m + 1 <= 5
                      THEN Append(local_warn,
                               MsgN("Running balance: mismatch",
                                    << curr.page, curr.row, expected, curr.balance >>))
                      ELSE local_warn)
             ELSE CountFrom(rows, i + 1, m, local_warn)

count_mismatches(rows) == CountFrom(rows, 2, 0, << >>)

\* Variant: a tie goes to the reversed orientation (<= for <).
PickOrientation_TieReversed(c1, c2) == IF c2.m <= c1.m THEN c2 ELSE c1

PickOrientation(c1, c2) == IF c2.m < c1.m THEN c2 ELSE c1

InsufficientData == Msg("Running balance: not enough extracted rows to validate.")

ManyInconsistencies == Msg("Running balance: many inconsistencies detected (showing first 5).")

\* Variant: two rows are already compared (< 2 for < 3).
running_balance_check_rows_TwoRows(transactions) ==
    IF Len(transactions) < 2 THEN << InsufficientData >>
    ELSE LET best == PickOrientation(count_mismatches(transactions),
                                     count_mismatches(Reverse(transactions)))
         IN  best.warn \o (IF best.m >= 5 THEN << ManyInconsistencies >> ELSE << >>)

running_balance_check_rows(transactions) ==
    IF Len(transactions) < 3 THEN << InsufficientData >>
    ELSE LET best == PickOrientation(count_mismatches(transactions),
                                     count_mismatches(Reverse(transactions)))
         IN  best.warn \o (IF best.m >= 5 THEN << ManyInconsistencies >> ELSE << >>)

(***************************************************************************)
(* INPUTS                                                                  *)
(***************************************************************************)
\* At most this many of the five token lists match the metadata text.
MaxMetaMatches == 2

\* Lines of text on a full page.
MaxLines == 2

\* Rows the table extractor returns, at most.
MaxTxRows == 3

\* A balance, in whole pounds.
MaxBalance == 1

\* Rows handed to running_balance_check_rows on its own, at most.
MaxRows == 6

PageCounts == {0, 1, 2, 4, 9, 13}

\* Documents of up to this many pages vary their line counts and markers.
DetailPages == {1, 2, 4}

MetaTexts ==
    {EmptyMeta} \cup
    { [empty |-> FALSE, has |-> h] :
          h \in {x \in SUBSET TokenLists : Cardinality(x) <= MaxMetaMatches} }

LinePatterns(n) ==
    {[i \in 1..n |-> MaxLines]} \cup
    (IF n \in DetailPages /\ n >= 3
     THEN {[i \in 1..n |-> IF i = 2 THEN 0 ELSE MaxLines]} ELSE {})

MarkerPatterns(n) ==
    {[i \in 1..n |-> TRUE]} \cup
    (IF n \in DetailPages
     THEN {[i \in 1..n |-> FALSE], [i \in 1..n |-> i = 1]} ELSE {})

PageTexts(n) ==
    { [i \in 1..n |-> [lines |-> l[i], marker |-> m[i]]] :
          l \in LinePatterns(n), m \in MarkerPatterns(n) }

FirstPages ==
    [banks   : {{}, {"TSB", "RBS"}},
     balance : BOOLEAN,
     header  : {{}, {"statement"}, {"account", "sort code"}}]

SeqsUpTo(S, n) == UNION {[1..k -> S] : k \in 0..n}

\* The rows of one table on page 1 whose balance column reads bals and whose
\* debit and credit columns are empty.
TableRows(bals) ==
    [i \in 1..Len(bals) |->
        [page |-> 1, row |-> i + 1, debit |-> 0, credit |-> 0, balance |-> bals[i]]]

ExtractedRows == {TableRows(b) : b \in SeqsUpTo({0, MaxBalance}, MaxTxRows)}

Moves == {<<0, 0>>, <<MaxBalance, 0>>, <<0, MaxBalance>>}

RowLists ==
    { [i \in 1..Len(q) |->
          [page |-> 1, row |-> i + 1, debit |-> q[i][2][1], credit |-> q[i][2][2],
           balance |-> q[i][1]]] :
      q \in SeqsUpTo({0, MaxBalance} \X Moves, MaxRows) }

(***************************************************************************)
(* run_basic_checks                                                        *)
(***************************************************************************)
VARIABLES pc, score, reasons, sections, detected_bank, num_pages, lower_meta,
          ai_info, strong_edit_signal, pages_text, first_lower, txs,
          rb_warnings, verdict

vars == << pc, score, reasons, sections, detected_bank, num_pages, lower_meta,
           ai_info, strong_edit_signal, pages_text, first_lower, txs,
           rb_warnings, verdict >>

Categories == {"integrity", "branding", "layout", "transactions", "ai"}

Locals ==
    /\ score = F(100)
    /\ reasons = << >>
    /\ sections = [c \in Categories |-> << >>]
    /\ detected_bank = "unknown"
    /\ num_pages = 0
    /\ lower_meta = EmptyMeta
    /\ ai_info = [level |-> "none", summary |-> << >>]
    /\ strong_edit_signal = FALSE
    /\ pages_text = << >>
    /\ first_lower = [banks |-> {}, balance |-> FALSE, header |-> {}]
    /\ txs = << >>
    /\ rb_warnings = << >>
    /\ verdict = "none"

Init == pc = "read_pdf" /\ Locals

\* Variant: the message reaches the flat list only.
Emit_FlatOnly(cat, msgs) ==
    /\ reasons' = reasons \o msgs
    /\ UNCHANGED sections

\* reasons.extend(msgs); sections[cat].extend(msgs)
Emit(cat, msgs) ==
    /\ reasons' = reasons \o msgs
    /\ sections' = [sections EXCEPT ![cat] = @ \o msgs]

ReadPdf ==
    /\ pc = "read_pdf"
    /\ \E n \in PageCounts :
          /\ num_pages' = n
          /\ pc' = IF n = 0 THEN "raised" ELSE "structural"
    /\ UNCHANGED << score, reasons, sections, detected_bank, lower_meta, ai_info,
                    strong_edit_signal, pages_text, first_lower, txs, rb_warnings,
                    verdict >>

StructuralChecks ==
    /\ pc = "structural"
    /\ IF num_pages > 12
       THEN /\ score' = FSub(score, F(15))
            /\ Emit("layout", << MsgN("Unusual page count", << num_pages >>) >>)
       ELSE IF num_pages > 8
       THEN /\ score' = FSub(score, F(8))
            /\ Emit("layout", << MsgN("High page count", << num_pages >>) >>)
       ELSE UNCHANGED << score, reasons, sections >>
    /\ pc' = "metadata"
    /\ UNCHANGED << detected_bank, num_pages, lower_meta, ai_info, strong_edit_signal,
                    pages_text, first_lower, txs, rb_warnings, verdict >>

NoAiIndicators == Msg("No strong AI/synthetic indicators found in PDF metadata.")

\* Variant: the medium-risk list is tested before the high-risk list.
IntegrityTier_MediumFirst(meta) ==
    IF meta.empty THEN "missing"
    ELSE IF "medium_risk_tools" \in meta.has THEN "generic_tool"
    ELSE IF "high_risk_editors" \in meta.has THEN "editing_tool"
    ELSE IF "banklike_or_os" \in meta.has THEN "system_generated"
    ELSE "unrecognised"

\* The branch of the metadata if/elif chain the text takes.
IntegrityTier(meta) ==
    IF meta.empty THEN "missing"
    ELSE IF "high_risk_editors" \in meta.has THEN "editing_tool"
    ELSE IF "medium_risk_tools" \in meta.has THEN "generic_tool"
    ELSE IF "banklike_or_os" \in meta.has THEN "system_generated"
    ELSE "unrecognised"

MetadataMessage(tier) ==
    CASE tier = "missing" ->
            Msg("Metadata: minimal or missing (can be normal for app-generated statements).")
      [] tier = "editing_tool" ->
            MsgS("Metadata: shows possible editing tool", "producer or creator")
      [] tier = "generic_tool" ->
            MsgS("Metadata: shows generic PDF tool", "producer or creator")
      [] tier = "system_generated" ->
            MsgS("Metadata: looks system-generated", "producer or creator")
      [] OTHER ->
            MsgS("Metadata: unrecognised producer/creator", "producer or creator")

\* Variant: the high-risk branch takes the medium-risk penalty.
HighRiskPenalty_Medium == F(10)

\* score -= 0.55 of the high-risk editor branch
HighRiskPenalty == F(55)

MetadataChecks ==
    /\ pc = "metadata"
    /\ \E meta \in MetaTexts :
          LET ai      == ai_generation_signals(meta)
              summary == IF ai.reasons # << >> THEN ai.reasons ELSE << NoAiIndicators >>
              tier    == IntegrityTier(meta)
          IN  /\ lower_meta' = meta
              /\ ai_info' = [level |-> ai.level, summary |-> summary]
              /\ strong_edit_signal' = (tier = "editing_tool")
              /\ score' = CASE tier = "missing" -> FSub(score, F(3))
                            [] tier = "editing_tool" -> FSub(score, HighRiskPenalty)
                            [] tier = "generic_tool" -> FSub(score, F(10))
                            [] tier = "system_generated" -> score
                            [] OTHER -> FSub(score, F(3))
              /\ reasons' = (reasons \o summary) \o << MetadataMessage(tier) >>
              /\ sections' = [sections EXCEPT !["ai"] = @ \o summary,
                                              !["integrity"] = Append(@, MetadataMessage(tier))]
    /\ pc' = "ai_penalties"
    /\ UNCHANGED << detected_bank, num_pages, pages_text, first_lower, txs,
                    rb_warnings, verdict >>

AiPenalties ==
    /\ pc = "ai_penalties"
    /\ IF ai_info.level = "strong"
       THEN /\ score' = FSub(score, F(20))
            /\ Emit("ai", << Msg("AI indicator: strong metadata signal of automated generation.") >>)
       ELSE IF ai_info.level = "possible"
       THEN /\ score' = FSub(score, F(5))
            /\ Emit("ai", << Msg("AI indicator: possible metadata signal (weak evidence).") >>)
       ELSE UNCHANGED << score, reasons, sections >>
    /\ pc' = "extract_text"
    /\ UNCHANGED << detected_bank, num_pages, lower_meta, ai_info, strong_edit_signal,
                    pages_text, first_lower, txs, rb_warnings, verdict >>

ExtractText ==
    /\ pc = "extract_text"
    /\ \E pages \in PageTexts(num_pages), first \in FirstPages :
          /\ pages_text' = pages
          /\ first_lower' = first
    /\ pc' = "branding"
    /\ UNCHANGED << score, reasons, sections, detected_bank, num_pages, lower_meta,
                    ai_info, strong_edit_signal, txs, rb_warnings, verdict >>

\* The keys of bank_tokens, in declaration order.
bank_tokens ==
    << "Lloyds", "Barclays", "HSBC", "NatWest", "RBS", "Halifax", "Santander",
       "Nationwide", "TSB", "Monzo", "Starling", "Revolut", "Metro Bank",
       "Virgin Money" >>

\* The first bank, in declaration order, one of whose tokens is on page 1.
DetectBank(banks) ==
    LET hits == {i \in 1..Len(bank_tokens) : bank_tokens[i] \in banks}
    IN  IF hits = {} THEN "unknown"
        ELSE bank_tokens[CHOOSE i \in hits : \A j \in hits : i <= j]

BrandingCheck ==
    /\ pc = "branding"
    /\ LET bank == DetectBank(first_lower.banks)
       IN  /\ detected_bank' = bank
           /\ IF bank = "unknown"
              THEN /\ score' = FSub(score, F(6))
                   /\ Emit("branding", << Msg("Branding: bank name not matched to current list.") >>)
              ELSE /\ score' = FAdd(score, F(5))
                   /\ Emit("branding", << MsgS("Branding: detected on page 1.", bank) >>)
    /\ pc' = "content"
    /\ UNCHANGED << num_pages, lower_meta, ai_info, strong_edit_signal, pages_text,
                    first_lower, txs, rb_warnings, verdict >>

ContentCheck ==
    /\ pc = "content"
    /\ IF ~first_lower.balance
       THEN /\ score' = FSub(score, F(3))
            /\ Emit("layout", << Msg("Content: 'balance' not found on page 1 (not always an issue).") >>)
       ELSE UNCHANGED << score, reasons, sections >>
    /\ pc' = "layout"
    /\ UNCHANGED << detected_bank, num_pages, lower_meta, ai_info, strong_edit_signal,
                    pages_text, first_lower, txs, rb_warnings, verdict >>

LayoutChecks ==
    /\ pc = "layout"
    /\ LET layout_warnings == layout_anomaly_check(pages_text, first_lower.header)
       IN  IF layout_warnings # << >>
           THEN /\ score' = FSub(score, F(5))
                /\ Emit("layout", layout_warnings)
           ELSE UNCHANGED << score, reasons, sections >>
    /\ pc' = "extract_transactions"
    /\ UNCHANGED << detected_bank, num_pages, lower_meta, ai_info, strong_edit_signal,
                    pages_text, first_lower, txs, rb_warnings, verdict >>

ParseError == MsgS("Transactions: parse error", "e")

\* Variant: no try/except around the extraction; its exception leaves
\* run_basic_checks.
ExtractTransactions_Unguarded ==
    /\ pc = "extract_transactions"
    /\ \/ /\ \E rows \in ExtractedRows : txs' = rows
          /\ pc' = "transactions"
       \/ /\ txs' = << >>
          /\ pc' = "raised"
    /\ UNCHANGED << score, reasons, sections, detected_bank, num_pages, lower_meta,
                    ai_info, strong_edit_signal, pages_text, first_lower, rb_warnings,
                    verdict >>

\* try: txs = extract_transactions_pdfplumber(file_bytes), which returns rows
\* or raises.
ExtractTransactions ==
    /\ pc = "extract_transactions"
    /\ \/ \E rows \in ExtractedRows :
             /\ txs' = rows
             /\ UNCHANGED << reasons, sections >>
       \/ /\ txs' = << >>
          /\ Emit("transactions", << ParseError >>)
    /\ pc' = "transactions"
    /\ UNCHANGED << score, detected_bank, num_pages, lower_meta, ai_info,
                    strong_edit_signal, pages_text, first_lower, rb_warnings, verdict >>

NoTables == Msg("Transactions: could not extract structured tables (common for some bank/app PDFs).")

BalanceCheckError == MsgS("Running balance check error", "e")

\* Variant: the 0.30 is taken for mismatches only, not for the
\* not-enough-rows warning.
TransactionChecks_MismatchOnly ==
    /\ pc = "transactions"
    /\ IF txs = << >>
       THEN /\ score' = FSub(score, F(2))
            /\ Emit("transactions", << NoTables >>)
            /\ UNCHANGED rb_warnings
       ELSE \/ LET w == running_balance_check_rows(txs)
               IN  /\ rb_warnings' = w
                   /\ IF w # << >>
                      THEN /\ score' = IF w = << InsufficientData >> THEN score
                                       ELSE FSub(score, F(30))
                           /\ Emit("transactions", w)
                      ELSE UNCHANGED << score, reasons, sections >>
            \/ /\ rb_warnings' = << >>
               /\ Emit("transactions", << BalanceCheckError >>)
               /\ UNCHANGED score
    /\ pc' = "normalise"
    /\ UNCHANGED << detected_bank, num_pages, lower_meta, ai_info, strong_edit_signal,
                    pages_text, first_lower, txs, verdict >>

\* if not txs: ... else: try: rb_warnings = running_balance_check_rows(txs),
\* which returns warnings or raises.
TransactionChecks ==
    /\ pc = "transactions"
    /\ IF txs = << >>
       THEN /\ score' = FSub(score, F(2))
            /\ Emit("transactions", << NoTables >>)
            /\ UNCHANGED rb_warnings
       ELSE \/ LET w == running_balance_check_rows(txs)
               IN  /\ rb_warnings' = w
                   /\ IF w # << >>
                      THEN /\ score' = FSub(score, F(30))
                           /\ Emit("transactions", w)
                      ELSE UNCHANGED << score, reasons, sections >>
            \/ /\ rb_warnings' = << >>
               /\ Emit("transactions", << BalanceCheckError >>)
               /\ UNCHANGED score
    /\ pc' = "normalise"
    /\ UNCHANGED << detected_bank, num_pages, lower_meta, ai_info, strong_edit_signal,
                    pages_text, first_lower, txs, verdict >>

\* Variant: the floor is 0.0.
Clamp_FloorZero(s) == PyMax(F(0), PyMin(s, F(100)))

\* max(0.05, min(score, 1.0))
Clamp(s) == PyMax(F(5), PyMin(s, F(100)))

NormaliseScore ==
    /\ pc = "normalise"
    /\ score' = Clamp(score)
    /\ pc' = "verdict"
    /\ UNCHANGED << reasons, sections, detected_bank, num_pages, lower_meta, ai_info,
                    strong_edit_signal, pages_text, first_lower, txs, rb_warnings,
                    verdict >>

OverallMessage(v) ==
    IF v = "likely_fake"
    THEN Msg("Overall: high risk signals found - recommend requesting an original statement directly from the bank.")
    ELSE IF v = "suspicious"
    THEN Msg("Overall: some elements need review - recommend manual checks.")
    ELSE Msg("Overall: looks consistent with a bank-generated PDF (not proof of authenticity).")

\* Variant: the first threshold is inclusive (<= 0.55).
Bucket_Inclusive(s, strong) ==
    IF strong \/ ~FLt(F(55), s) THEN "likely_fake"
    ELSE IF FLt(s, F(82)) THEN "suspicious"
    ELSE "likely_genuine"

Bucket(s, strong) ==
    IF strong \/ FLt(s, F(55)) THEN "likely_fake"
    ELSE IF FLt(s, F(82)) THEN "suspicious"
    ELSE "likely_genuine"

VerdictBuckets ==
    /\ pc = "verdict"
    /\ verdict' = Bucket(score, strong_edit_signal)
    /\ reasons' = Append(reasons, OverallMessage(verdict'))
    /\ pc' = "returned"
    /\ UNCHANGED << score, sections, detected_bank, num_pages, lower_meta, ai_info,
                    strong_edit_signal, pages_text, first_lower, txs, rb_warnings >>

Next ==
    \/ ReadPdf
    \/ StructuralChecks
    \/ MetadataChecks
    \/ AiPenalties
    \/ ExtractText
    \/ BrandingCheck
    \/ ContentCheck
    \/ LayoutChecks
    \/ ExtractTransactions
    \/ TransactionChecks
    \/ NormaliseScore
    \/ VerdictBuckets

Spec == Init /\ [][Next]_vars

(***************************************************************************)
(* running_balance_check_rows on its own, over every row list of RowLists  *)
(***************************************************************************)
InitRows ==
    /\ pc = "rb_call"
    /\ score = F(100)
    /\ reasons = << >>
    /\ sections = [c \in Categories |-> << >>]
    /\ detected_bank = "unknown"
    /\ num_pages = 0
    /\ lower_meta = EmptyMeta
    /\ ai_info = [level |-> "none", summary |-> << >>]
    /\ strong_edit_signal = FALSE
    /\ pages_text = << >>
    /\ first_lower = [banks |-> {}, balance |-> FALSE, header |-> {}]
    /\ txs \in RowLists
    /\ rb_warnings = << >>
    /\ verdict = "none"

RunningBalanceCall ==
    /\ pc = "rb_call"
    /\ rb_warnings' = running_balance_check_rows(txs)
    /\ pc' = "rb_returned"
    /\ UNCHANGED << score, reasons, sections, detected_bank, num_pages, lower_meta,
                    ai_info, strong_edit_signal, pages_text, first_lower, txs, verdict >>

NextRows == RunningBalanceCall

SpecRows == InitRows /\ [][NextRows]_vars
(***************************************************************************)
(* PROPERTIES                                                              *)
(***************************************************************************)
Returned == pc = "returned"

\* The metadata step has run.
AfterMetadata == pc \in {"ai_penalties", "extract_text", "branding", "content", "layout",
                         "extract_transactions", "transactions", "normalise",
                         "verdict", "returned"}

\* The transaction step has run.
AfterTransactions == pc \in {"normalise", "verdict", "returned"}

Range(q) == {q[i] : i \in 1..Len(q)}

Texts(cat) == {m.text : m \in Range(sections[cat])}

HasText(cat, text) == text \in Texts(cat)

LayoutWarningTexts ==
    {"Layout: key header fields look missing/unclear on page 1.",
     "Layout: page has far fewer text lines than other pages.",
     "Layout: page numbering marker appears on some pages but missing on: "}

RunningBalanceTexts ==
    {"Running balance: not enough extracted rows to validate.",
     "Running balance: mismatch",
     "Running balance: many inconsistencies detected (showing first 5)."}

\* 1.0 plus the delta of every signal whose message is in the groups, added
\* in the order the signals fire, with no clamping; integrity says whether
\* the metadata tier's delta is counted.
SignalSum(integrity) ==
    LET s0 == F(100)
        s1 == IF HasText("layout", "Unusual page count") THEN FSub(s0, F(15))
              ELSE IF HasText("layout", "High page count") THEN FSub(s0, F(8))
              ELSE s0
        s2 == IF ~integrity THEN s1
              ELSE IF HasText("integrity", "Metadata: minimal or missing (can be normal for app-generated statements).")
                 THEN FSub(s1, F(3))
              ELSE IF HasText("integrity", "Metadata: shows possible editing tool")
                 THEN FSub(s1, F(55))
              ELSE IF HasText("integrity", "Metadata: shows generic PDF tool")
                 THEN FSub(s1, F(10))
              ELSE IF HasText("integrity", "Metadata: unrecognised producer/creator")
                 THEN FSub(s1, F(3))
              ELSE s1
        s3 == IF HasText("ai", "AI indicator: strong metadata signal of automated generation.")
                 THEN FSub(s2, F(20))
              ELSE IF HasText("ai", "AI indicator: possible metadata signal (weak evidence).")
                 THEN FSub(s2, F(5))
              ELSE s2
        s4 == IF HasText("branding", "Branding: bank name not matched to current list.")
                 THEN FSub(s3, F(6))
              ELSE IF HasText("branding", "Branding: detected on page 1.")
                 THEN FAdd(s3, F(5))
              ELSE s3
        s5 == IF HasText("layout", "Content: 'balance' not found on page 1 (not always an issue).")
                 THEN FSub(s4, F(3)) ELSE s4
        s6 == IF Texts("layout") \cap LayoutWarningTexts # {} THEN FSub(s5, F(5)) ELSE s5
        s7 == IF HasText("transactions", NoTables.text) THEN FSub(s6, F(2))
              ELSE IF Texts("transactions") \cap RunningBalanceTexts # {} THEN FSub(s6, F(30))
              ELSE s6
    IN  s7

FLe(a, b) == ~FLt(b, a)

\* C1: the verdict of every returned result is decided first-match-wins from
\* the clamped score and strong_edit_signal only: likely_fake if the flag is
\* set or score < 0.55, else suspicious if score < 0.82, else likely_genuine;
\* without the flag 0.549 is likely_fake, 0.55 and 0.819 are suspicious and
\* 0.82 is likely_genuine.
C1_VerdictFirstMatchWins ==
    /\ Returned =>
          /\ FLe(F(5), score) /\ FLe(score, F(100))
          /\ (strong_edit_signal \/ FLt(score, F(55))) => verdict = "likely_fake"
          /\ (~strong_edit_signal /\ ~FLt(score, F(55)) /\ FLt(score, F(82)))
                => verdict = "suspicious"
          /\ (~strong_edit_signal /\ ~FLt(score, F(82))) => verdict = "likely_genuine"
    /\ Bucket(Decimal(549, 1000), FALSE) = "likely_fake"
    /\ Bucket(Decimal(550, 1000), FALSE) = "suspicious"
    /\ Bucket(Decimal(819, 1000), FALSE) = "suspicious"
    /\ Bucket(Decimal(820, 1000), FALSE) = "likely_genuine"

\* A run returns with a score of exactly 0.55 and no strong edit signal.
C1_Witness ==
    Returned /\ ~strong_edit_signal /\ score = F(55) /\ verdict = "suspicious"

\* C2: the returned confidence lies in [0.05, 1.0] and is
\* max(0.05, min(raw, 1.0)), raw being 1.0 plus the fired deltas with no
\* intermediate clamping.
C2_ConfidenceIsClampedRaw ==
    /\ pc = "normalise" => score = SignalSum(TRUE)
    /\ pc \in {"verdict", "returned"} =>
          /\ FLe(F(5), score) /\ FLe(score, F(100))
          /\ score = PyMax(F(5), PyMin(SignalSum(TRUE), F(100)))

\* A run whose raw score is negative returns 0.05.
C2_Witness == Returned /\ FLt(SignalSum(TRUE), F(0)) /\ score = F(5)

\* A run whose raw score is above 1.0 returns 1.0.
C2_WitnessAboveOne == Returned /\ FLt(F(100), SignalSum(TRUE)) /\ score = F(100)

\* C3: metadata containing a high-risk editor token sets strong_edit_signal
\* and the verdict is likely_fake whatever the other checks find.
C3_HighRiskEditorForcesFake ==
    /\ (AfterMetadata /\ "high_risk_editors" \in lower_meta.has) => strong_edit_signal
    /\ (Returned /\ "high_risk_editors" \in lower_meta.has) => verdict = "likely_fake"

\* A run with a high-risk editor in the metadata, whose other signals alone
\* leave the score at or above 0.82, returns likely_fake.
C3_Witness ==
    /\ Returned
    /\ "high_risk_editors" \in lower_meta.has
    /\ ~FLt(SignalSum(FALSE), F(82))
    /\ verdict = "likely_fake"

TransactionErrors == {ParseError, BalanceCheckError}

\* C4 as stated: after an exception in table extraction or in balance
\* verification the run goes on with an empty transaction set, exactly as
\* when no tables were found: the error message, then the no-tables message
\* and its 0.02.
C4_FailureIsNoTables ==
    (AfterTransactions /\ Range(sections["transactions"]) \cap TransactionErrors # {}) =>
        /\ txs = << >>
        /\ \E e \in TransactionErrors : sections["transactions"] = << e, NoTables >>

\* C4 amended: no exception of the two components leaves run_basic_checks (a
\* run that raised stopped at the empty-PDF test, before either component
\* ran).  An extraction failure adds its message and then
\* goes on as when no tables were found (empty txs, the no-tables message,
\* 0.02).  A verification failure adds its message, leaves rb_warnings empty
\* and changes the score by nothing: neither 0.02 nor 0.30.
C4_FailureIsAbsorbed ==
    /\ pc = "raised" => num_pages = 0
    /\ (AfterTransactions /\ ParseError \in Range(sections["transactions"])) =>
          /\ txs = << >>
          /\ sections["transactions"] = << ParseError, NoTables >>
    /\ (AfterTransactions /\ BalanceCheckError \in Range(sections["transactions"])) =>
          /\ txs # << >>
          /\ rb_warnings = << >>
          /\ sections["transactions"] = << BalanceCheckError >>
    /\ pc = "normalise" => score = SignalSum(TRUE)

\* The balance verification of extracted rows has failed and the run has
\* returned.
C4_Witness ==
    Returned /\ txs # << >> /\ sections["transactions"] = << BalanceCheckError >>

\* The positions of the current rows of the mismatching adjacent pairs,
\* in encounter order and in reversed order.
ForwardMismatches(rows) == {i \in 2..Len(rows) : Mismatch(rows[i - 1], rows[i])}
ReversedMismatches(rows) == {i \in 1..(Len(rows) - 1) : Mismatch(rows[i + 1], rows[i])}

MismatchRows(warnings) ==
    [i \in 1..Len(SelectSeq(warnings, LAMBDA m : m.text = "Running balance: mismatch")) |->
        SelectSeq(warnings, LAMBDA m : m.text = "Running balance: mismatch")[i].args[2]]

Ascending(q) == \A i \in 1..(Len(q) - 1) : q[i] < q[i + 1]
Descending(q) == \A i \in 1..(Len(q) - 1) : q[i] > q[i + 1]

Min(a, b) == IF a < b THEN a ELSE b

\* C5: for 3 or more rows the verifier returns the warnings of the orientation
\* with strictly fewer mismatches, the forward one on a tie; rows consistent
\* in one orientation give no warning.
C5_OrientationWithFewerMismatches ==
    (pc = "rb_returned" /\ Len(txs) >= 3) =>
        LET fwd  == ForwardMismatches(txs)
            rev  == ReversedMismatches(txs)
            rows == MismatchRows(rb_warnings)
        IN  /\ InsufficientData \notin Range(rb_warnings)
            /\ Len(rows) = Min(5, Min(Cardinality(fwd), Cardinality(rev)))
            /\ IF Cardinality(rev) < Cardinality(fwd)
               THEN /\ Descending(rows)
                    /\ \A k \in 1..Len(rows) : rows[k] - 1 \in rev
                    /\ \A i \in rev : i + 1 \in Range(rows) \/ i + 1 < rows[Len(rows)]
               ELSE /\ Ascending(rows)
                    /\ \A k \in 1..Len(rows) : rows[k] - 1 \in fwd
                    /\ \A i \in fwd : i + 1 \in Range(rows) \/ i + 1 > rows[Len(rows)]
            /\ (ManyInconsistencies \in Range(rb_warnings))
                  <=> Min(Cardinality(fwd), Cardinality(rev)) >= 5
            /\ (fwd = {} \/ rev = {}) => rb_warnings = << >>

\* Five rows that are consistent only when reversed give no warning.
C5_Witness ==
    /\ pc = "rb_returned"
    /\ Len(txs) = 5
    /\ ForwardMismatches(txs) # {}
    /\ ReversedMismatches(txs) = {}
    /\ rb_warnings = << >>

\* C6: for fewer than 3 rows the verifier returns exactly the one
\* insufficient-data warning.
C6_FewRowsInsufficientData ==
    (pc = "rb_returned" /\ Len(txs) < 3) => rb_warnings = << InsufficientData >>

\* Two rows whose balances do not chain give the insufficient-data warning only.
C6_Witness ==
    /\ pc = "rb_returned"
    /\ Len(txs) = 2
    /\ Mismatch(txs[1], txs[2])
    /\ rb_warnings = << InsufficientData >>

\* C7: 2 pages, empty metadata, no bank alias, no extracted rows and at most
\* one header token on page 1 give suspicious or likely_fake.
C7_SparseDocumentNotGenuine ==
    ( /\ Returned
      /\ num_pages = 2
      /\ lower_meta.empty
      /\ first_lower.banks = {}
      /\ txs = << >>
      /\ Cardinality(first_lower.header \cap header_tokens) <= 1 )
    => verdict \in {"suspicious", "likely_fake"}

\* Such a document with 'balance' on page 1, one header token and markers on
\* both pages is returned as suspicious.
C7_Witness ==
    /\ Returned
    /\ num_pages = 2
    /\ lower_meta.empty
    /\ first_lower.banks = {}
    /\ txs = << >>
    /\ Cardinality(first_lower.header \cap header_tokens) = 1
    /\ first_lower.balance
    /\ \A i \in 1..2 : pages_text[i].marker
    /\ verdict = "suspicious"

Count(q, m) == Cardinality({i \in 1..Len(q) : q[i] = m})

RECURSIVE SumOver(_, _)
SumOver(S, f) ==
    IF S = {} THEN 0
    ELSE LET x == CHOOSE y \in S : TRUE IN f[x] + SumOver(S \ {x}, f)

\* q holds exactly the messages of the five groups, each as often as the
\* groups hold it.
GroupsMakeUp(q, groups) ==
    \A m \in Range(q) \cup UNION {Range(groups[c]) : c \in Categories} :
        Count(q, m) = SumOver(Categories, [c \in Categories |-> Count(groups[c], m)])

IsPrefix(p, q) == Len(p) <= Len(q) /\ SubSeq(q, 1, Len(p)) = p

Suffix(p, q) == SubSeq(q, Len(p) + 1, Len(q))

\* C8: the flat list and the groups only grow; each message goes to the flat
\* list and to one group; a returned flat list is the groups' messages plus
\* one last overall message that matches the verdict and is in no group.
C8_ReasonsMirrorSections ==
    /\ [](pc \notin {"returned", "rb_call", "rb_returned"} => GroupsMakeUp(reasons, sections))
    /\ [](Returned =>
            /\ reasons # << >>
            /\ reasons[Len(reasons)] = OverallMessage(verdict)
            /\ GroupsMakeUp(SubSeq(reasons, 1, Len(reasons) - 1), sections)
            /\ \A c \in Categories : \A v \in {"likely_fake", "suspicious", "likely_genuine"} :
                  OverallMessage(v) \notin Range(sections[c]))
    /\ [][ /\ IsPrefix(reasons, reasons')
           /\ \A c \in Categories : IsPrefix(sections[c], sections'[c])
           /\ pc' # "returned" =>
                 GroupsMakeUp(Suffix(reasons, reasons'),
                              [c \in Categories |-> Suffix(sections[c], sections'[c])])
         ]_vars

\* A returned result with messages in all five groups.
C8_Witness ==
    /\ Returned
    /\ \A c \in Categories : sections[c] # << >>
    /\ Len(reasons) = 1 + SumOver(Categories, [c \in Categories |-> Len(sections[c])])

\* C9: the transaction step subtracts 0.30 once exactly when rows were extracted
\* and the verifier returned warnings, whatever they are; so 1 or 2 rows cost
\* 0.30 for the not-enough-rows warning, and no rows cost 0.02.
C9_BalancePenaltyOnAnyWarning ==
    /\ [][ pc = "transactions" =>
              /\ (txs # << >> /\ rb_warnings' # << >>) => score' = FSub(score, F(30))
              /\ (txs # << >> /\ rb_warnings' = << >>) => score' = score
              /\ txs = << >> => score' = FSub(score, F(2))
              /\ (Len(txs) \in {1, 2} /\ BalanceCheckError \notin Range(sections'["transactions"]))
                    => rb_warnings' = << InsufficientData >>
         ]_vars
    /\ [](AfterTransactions =>
             (Texts("transactions") \cap RunningBalanceTexts # {}
                 <=> (txs # << >> /\ rb_warnings # << >>)))

\* One extracted row: the not-enough-rows warning and 1.0 + 0.05 - 0.30.
C9_Witness ==
    /\ pc = "normalise"
    /\ Len(txs) = 1
    /\ rb_warnings = << InsufficientData >>
    /\ score = FSub(FAdd(F(100), F(5)), F(30))

\* The verdict the score thresholds alone give.
ByScoreAlone(s) ==
    IF FLt(s, F(55)) THEN "likely_fake"
    ELSE IF FLt(s, F(82)) THEN "suspicious"
    ELSE "likely_genuine"

\* C10: with strong_edit_signal set the raw score is at most 0.50, so the
\* override never changes the verdict the thresholds alone give.
C10_OverrideIsRedundant ==
    /\ (AfterMetadata /\ strong_edit_signal) => FLe(score, F(50))
    /\ Returned => verdict = ByScoreAlone(score)

\* A strong edit signal with no other penalty: the raw score is
\* 1.0 - 0.55 + 0.05 and the verdict is likely_fake.
C10_Witness ==
    /\ Returned
    /\ strong_edit_signal
    /\ score = FAdd(FSub(F(100), F(55)), F(5))
    /\ verdict = "likely_fake"
==========================================================================
